---- MODULE Spec2Model ----
(* Presence client, debounce controller and event loop of src/main.rs.     *)
(* One iteration of the event loop is three steps, one per blocking call   *)
(* of run(): poll (line 252), read_to_end (line 253) and one of the run_*  *)
(* actions (lines 255-296).                                                *)
EXTENDS Integers, Sequences, FiniteSets, TLC

VARIABLES client, last_unset, buf, len, pc, last, hist, wire

vars == <<client, last_unset, buf, len, pc, last, hist, wire>>

-----------------------------------------------------------------------------
(* Bounds and program constants *)

\* largest value the merge list provider returns
MaxCount == 2
\* largest number of commands one read of the command channel yields
MaxCmds == 2
\* largest length of the payloads enumerated in full
MaxPayload == 3

\* Duration::from_secs(30), the debounce threshold
UnsetDelay == 30
\* Duration::from_secs(5), the poll timeout
PollTimeout == 5

\* how long the wait of one iteration lasts: the channel is readable at once,
\* or the wait times out
Waits == {0, PollTimeout}

\* elapsed times above the threshold are indistinguishable to the code
AgeCap == UnsetDelay + 1

-----------------------------------------------------------------------------
(* Option<T> is a sequence of length 0 or 1 *)

None == <<>>
Some(x) == <<x>>

\* the value of an expression that was worked out once: Only({f(x) : x \in {e}})
\* is f(e) with e evaluated a single time
Only(S) == CHOOSE x \in S : TRUE

Max(a, b) == IF a >= b THEN a ELSE b
Min(a, b) == IF a <= b THEN a ELSE b

-----------------------------------------------------------------------------
(* Sockets and the outcomes of I/O on them *)

\* a UnixStream just returned by UnixStream::connect; hs: the opcode 0 frame
\* was written on it, shut: shutdown(Both) was called on it, broken: an I/O
\* call on it has returned BrokenPipe or ConnectionReset
FreshSocket == [hs |-> FALSE, shut |-> FALSE, broken |-> FALSE]

\* results of stream.write_all: "BrokenPipe" stands for the two kinds
\* handle_io tears the connection down for, "Other" for every other kind
WriteOutcome == {"Ok", "BrokenPipe", "Other"}

\* results of the three reads recv performs
RecvOutcome == {"Ok", "ShortOpcode", "ShortLen", "ResetOpcode", "ResetLen",
                "ResetPayload", "EofPayload", "BadUtf8"}

\* a write on a socket that was shut down or whose peer is gone gets EPIPE
WriteResult(s, w) == IF s.shut \/ s.broken THEN "BrokenPipe" ELSE w

\* a read on such a socket returns 0 bytes
ReadResult(s, r) == IF s.shut \/ s.broken THEN "ShortOpcode" ELSE r

-----------------------------------------------------------------------------
(* Client *)

new == [stream |-> None, merge_len |-> None]

is_connected(c) == c.stream # None

\* every client operation yields the client after the call, the Result, the
\* frames written and whether a send hit a broken pipe
Ret(c, res, sent, broke) == [c |-> c, res |-> res, sent |-> sent, broke |-> broke]

\* handle_io without the teardown of line 72
handle_io_keep(c, io) ==
    IF io = "Ok" THEN [c |-> c, res |-> "Ok"] ELSE [c |-> c, res |-> "Err"]

handle_io(c, io) ==
    CASE io = "Ok" -> [c |-> c, res |-> "Ok"]
      [] io = "BrokenPipe" ->
            IF c.stream # None
            THEN [c |-> [c EXCEPT !.stream = None], res |-> "Err"]
            ELSE [c |-> c, res |-> "Ok"]
      [] OTHER -> [c |-> c, res |-> "Err"]

\* send, line 106: the Result of handle_io(write_all) is the Result of send
send_result(h, frame, io) ==
    Ret(h.c, h.res, IF io = "Ok" THEN {frame} ELSE {}, io = "BrokenPipe")

\* send tearing the connection down on every I/O error
send_write_drop(c, opcode, io) ==
    send_result(handle_io(c, IF io = "Ok" THEN "Ok" ELSE "BrokenPipe"),
                [op |-> opcode, hs |-> c.stream[1].hs], io)

\* send, lines 99-106: the frame is written on the held socket
send_write(c, opcode, io) ==
    send_result(handle_io(c, io), [op |-> opcode, hs |-> c.stream[1].hs], io)

send(c, opcode, w) ==
    IF c.stream = None
    THEN Ret(c, "Err", {}, FALSE)
    ELSE send_write(c, opcode, WriteResult(c.stream[1], w))

\* get_number handing a short read on as a number
get_number_partial(c, rr, short, reset) ==
    CASE rr = reset -> [c |-> [c EXCEPT !.stream = Some([c.stream[1] EXCEPT !.broken = TRUE])],
                        res |-> "Err"]
      [] OTHER -> [c |-> c, res |-> "Ok"]

\* get_number propagates its read error without handle_io
get_number(c, rr, short, reset) ==
    CASE rr = short -> [c |-> c, res |-> "Err"]
      [] rr = reset -> [c |-> [c EXCEPT !.stream = Some([c.stream[1] EXCEPT !.broken = TRUE])],
                        res |-> "Err"]
      [] OTHER -> [c |-> c, res |-> "Ok"]

\* io: what the reads met, "closed" without a socket
\* recv, lines 114-117: the payload read and its decoding
recv_payload(c, rr) ==
    CASE rr = "ResetPayload" -> handle_io(c, "BrokenPipe")
      [] rr = "EofPayload" -> handle_io(c, "Other")
      [] rr = "BadUtf8" -> [c |-> c, res |-> "Err"]
      [] OTHER -> [c |-> c, res |-> "Ok"]

\* recv, lines 112-113: the opcode, then the length
recv_numbers(c, rr, op, ln) ==
    IF op.res = "Err" THEN op
    ELSE IF ln.res = "Err" THEN ln
    ELSE recv_payload(c, rr)

recv_result(v, rr) == [c |-> v.c, res |-> v.res, io |-> rr]

recv_read(c, rr) ==
    recv_result(recv_numbers(c, rr,
                             get_number(c, rr, "ShortOpcode", "ResetOpcode"),
                             get_number(c, rr, "ShortLen", "ResetLen")),
                rr)

recv(c, r) ==
    IF c.stream = None
    THEN [c |-> c, res |-> "Err", io |-> "closed"]
    ELSE recv_read(c, ReadResult(c.stream[1], r))

\* what a recv() met and the Result it returned; NoRecv without a recv()
Met(v) == [io |-> v.io, res |-> v.res]
NoRecv == [io |-> "none", res |-> "none"]

\* the opcode 0 frame was written on the held socket
Greeted(c) == [c EXCEPT !.stream = Some([c.stream[1] EXCEPT !.hs = TRUE])]

\* handshake, line 131: res is the value handshake returns
handshake_result(s, v, res) ==
    [c |-> v.c, res |-> res, sent |-> s.sent, broke |-> s.broke,
     hsSend |-> s.res, hsRecv |-> v.io, recv |-> Met(v)]

\* handshake, line 130: recv() is called whatever the send returned
handshake_recv(s, r) == recv(IF s.res = "Ok" THEN Greeted(s.c) ELSE s.c, r)

handshake_returns_recv(s, v) == handshake_result(s, v, v.res)

handshake_returns_send(s, v) == handshake_result(s, v, s.res)

handshake_sent_strict(s, r) ==
    Only({handshake_returns_recv(s, v) : v \in {handshake_recv(s, r)}})

handshake_sent(s, r) ==
    Only({handshake_returns_send(s, v) : v \in {handshake_recv(s, r)}})

\* handshake returning the Result of its recv instead of its send
handshake_strict(c, w, r) ==
    Only({handshake_sent_strict(s, r) : s \in {send(c, 0, w)}})

handshake(c, w, r) ==
    Only({handshake_sent(s, r) : s \in {send(c, 0, w)}})

NoHs(k) == [c |-> k.c, res |-> k.res, sent |-> k.sent, broke |-> k.broke,
            hsSend |-> "none", hsRecv |-> "none", recv |-> NoRecv]

connect(c, found, conn, w, r) ==
    IF is_connected(c) THEN NoHs(Ret(c, "Ok", {}, FALSE))
    ELSE IF ~found THEN NoHs(Ret(c, "Err", {}, FALSE))
    ELSE IF ~conn THEN NoHs(Ret([c EXCEPT !.stream = None], "Err", {}, FALSE))
    ELSE handshake([c EXCEPT !.stream = Some(FreshSocket)], w, r)

\* reconnect, lines 137-142: flush of a UnixStream always returns Ok(());
\* then shutdown(Both), the socket staying in the field
shutdown(c) ==
    IF c.stream # None
    THEN [c EXCEPT !.stream = Some([c.stream[1] EXCEPT !.shut = TRUE])]
    ELSE c

\* the frames of the disconnect notice and of the handshake together
reconnect_result(s, h) ==
    [h EXCEPT !.sent = s.sent \cup h.sent, !.broke = s.broke \/ h.broke]

\* reconnect, lines 144-149
reconnect_open(s, c1, found, conn, w, r) ==
    IF ~found THEN NoHs(Ret(c1, "Err", s.sent, s.broke))
    ELSE IF ~conn THEN NoHs(Ret([c1 EXCEPT !.stream = None], "Err", s.sent, s.broke))
    ELSE Only({reconnect_result(s, h) :
                 h \in {handshake([c1 EXCEPT !.stream = Some(FreshSocket)], w, r)}})

reconnect_sent(s, found, conn, w, r) ==
    reconnect_open(s, shutdown(s.c), found, conn, w, r)

reconnect(c, w2, found, conn, w, r) ==
    Only({reconnect_sent(s, found, conn, w, r) : s \in {send(c, 2, w2)}})

\* new_count without the max: the provider's value as it is
new_count_last(c, count) == count

new_count(c, count) == Max(IF c.merge_len = None THEN 0 ELSE c.merge_len[1], count)

\* set_package, lines 158-164: the party of the activity, None without one.
\* The counts stay far below 2^32, so the u32 operations are those of the
\* integers; a first size below 1 is what an underflow would show as.
party(n, count) ==
    IF n = 0 THEN None ELSE Some(<<n - count + 1, n>>)

\* the frame of set_package carries the party
with_party(s, p) ==
    [c |-> s.c, res |-> s.res, sent |-> s.sent, broke |-> s.broke, party |-> p]

set_package(c, count, w) ==
    Only({with_party(s, party(new_count(c, count), count)) :
            s \in {send([c EXCEPT !.merge_len = Some(new_count(c, count))], 1, w)}})

-----------------------------------------------------------------------------
(* The command channel.  The bytes read are a sequence of chunks: "S" is   *)
(* the text of a well-formed set command (set <json>), "J" a set command   *)
(* whose JSON does not parse, "U" the text unset, "O" any other text, "X"  *)
(* bytes that are not UTF-8 and NUL the separator.                         *)

NUL == "0"
Cmd == {"S", "U", "J", "O", "X"}

RECURSIVE Join(_)
\* the commands of cs separated by NUL
Join(cs) == IF Len(cs) = 0 THEN <<>>
            ELSE IF Len(cs) = 1 THEN <<cs[1]>>
            ELSE <<cs[1], NUL>> \o Join(Tail(cs))

\* what one drain of the channel can yield: nothing, or up to MaxCmds
\* commands, the last one terminated by NUL or not
Reads == {<<>>} \cup
         UNION {{Join(cs), Join(cs) \o <<NUL>>} :
                   cs \in UNION {[1..n -> Cmd] : n \in 1..MaxCmds}}

from_utf8(b) == \A i \in 1..Len(b) : b[i] # "X"

RECURSIVE SplitRec(_, _, _)
SplitRec(b, cur, acc) ==
    IF b = <<>> THEN Append(acc, cur)
    ELSE IF Head(b) = NUL THEN SplitRec(Tail(b), <<>>, Append(acc, cur))
    ELSE SplitRec(Tail(b), Append(cur, Head(b)), acc)

\* str::split('\0')
split(b) == SplitRec(b, <<>>, <<>>)

\* str::split_terminator('\0'): split without a trailing empty string
drop_terminator(s) == IF s[Len(s)] = <<>> THEN SubSeq(s, 1, Len(s) - 1) ELSE s

split_terminator(b) == drop_terminator(split(b))

starts_with_set(command) == command # <<>> /\ command[1] \in {"S", "J"}
starts_with_unset(command) == command # <<>> /\ command[1] = "U"
\* serde_json::from_str rejects malformed text and trailing characters
from_str(command) == command = <<"S">>

\* The accumulator is kept as the shortest byte string run() cannot tell
\* from the bytes accumulated, now or after any further read: bytes that are
\* not UTF-8 make every later decode fail; commands before the last one are
\* never looked at; of the last command only its prefix is examined, and a
\* set command followed by anything but NUL fails in from_str like "J".
Head1(command) ==
    IF command = <<>> THEN <<>>
    ELSE IF Len(command) > 1 /\ command[1] = "S" THEN <<"J">>
    ELSE <<command[1]>>

CompactLast(commands, b) ==
    IF commands = <<>> THEN <<>>
    ELSE Head1(commands[Len(commands)])
           \o (IF b[Len(b)] = NUL THEN <<NUL>> ELSE <<>>)

Compact(b) ==
    IF ~from_utf8(b) THEN <<"X">>
    ELSE CompactLast(split_terminator(b), b)

-----------------------------------------------------------------------------
(* The debounce tick, lines 286-293.  last_unset holds the time elapsed    *)
(* since the Instant it was set to.                                        *)

NoReconnect(c, lu) ==
    [c |-> c, res |-> "Ok", sent |-> {}, broke |-> FALSE, hsSend |-> "none",
     hsRecv |-> "none", recv |-> NoRecv, last_unset |-> lu, reconnect |-> "no"]

\* a threshold that is never exceeded
Due_never(lu) == lu # None /\ lu[1] > AgeCap

\* ts.elapsed() > Duration::from_secs(30)
Due(lu) == lu # None /\ lu[1] > UnsetDelay

\* lines 288-291: reconnect()? returns before the two assignments
tick_reconnect(k, lu) ==
    IF k.res = "Err"
    THEN [c |-> k.c, res |-> "Err", sent |-> k.sent, broke |-> k.broke,
          hsSend |-> k.hsSend, hsRecv |-> k.hsRecv, recv |-> k.recv,
          last_unset |-> lu, reconnect |-> "Err"]
    ELSE [c |-> [k.c EXCEPT !.merge_len = None], res |-> "Ok",
          sent |-> k.sent, broke |-> k.broke,
          hsSend |-> k.hsSend, hsRecv |-> k.hsRecv, recv |-> k.recv,
          last_unset |-> None, reconnect |-> "Ok"]

tick(c, lu, w2, found, conn, w, r) ==
    IF Due(lu)
    THEN Only({tick_reconnect(k, lu) : k \in {reconnect(c, w2, found, conn, w, r)}})
    ELSE NoReconnect(c, lu)

-----------------------------------------------------------------------------
(* What the last iteration did (history, not program state):               *)
(*   connects   number of connect() calls                                  *)
(*   dispatched the command handed to the client or the controller         *)
(*   count      the provider's value in set_package, -1 without one        *)
(*   party      the party set_package put in the activity                  *)
(*   ticked     the debounce tick was reached                              *)
(*   reconnect  "no", or the Result of the reconnect() of the tick         *)
(*   res        the Result of run()                                        *)
(*   sent       the frames written, with the hs flag of their socket       *)
(*   broke      a send hit a broken pipe                                   *)
(*   hsSend, hsRecv  the Result of the send and what the recv met in       *)
(*              handshake()                                                *)
(*   recv       what the recv() of the iteration met and its Result (an    *)
(*              iteration calls recv() at most once)                       *)
(*   failed     while run() is under way, the iteration before failed      *)
(*              while decoding or parsing the bytes read                   *)
(*   read       while run() is under way, what read_to_end appended: the   *)
(*              number of commands, what the last of them is, whether all  *)
(*              of it is UTF-8                                             *)
(* hist is the last command dispatched so far and the time since then.     *)

\* what a command is when it is the one run() looks at: a set that parses,
\* an unset, or nothing to dispatch
Kind(command) ==
    IF command = <<"S">> THEN "set"
    ELSE IF starts_with_unset(command) THEN "unset"
    ELSE "none"

NoRead == [n |-> 0, final |-> "none", utf8 |-> TRUE]

Quiet == [connects |-> 0, dispatched |-> "none", count |-> -1, ticked |-> FALSE,
          reconnect |-> "no", res |-> "Ok", sent |-> {}, broke |-> FALSE,
          hsSend |-> "none", hsRecv |-> "none", read |-> NoRead,
          party |-> None, recv |-> NoRecv, failed |-> FALSE]

\* the iteration of record l returned the error of line 261 or of lines
\* 272-273: an error, with nothing connected, dispatched or ticked
DecodeFailed(l) ==
    l.res = "Err" /\ l.connects = 0 /\ l.dispatched = "none" /\ ~l.ticked

SummaryOf(commands, rd) ==
    [n |-> Len(commands),
     final |-> IF commands = <<>> THEN "none" ELSE Kind(commands[Len(commands)]),
     utf8 |-> from_utf8(rd)]

Summary(rd) == SummaryOf(split_terminator(rd), rd)

\* the record of an iteration that ended in the operation result k
Of(k) == [Quiet EXCEPT !.res = k.res, !.sent = k.sent, !.broke = k.broke,
                       !.hsSend = k.hsSend, !.hsRecv = k.hsRecv,
                       !.recv = k.recv]

\* the outcomes a connection attempt meets: find_ipc_path, UnixStream::connect,
\* the handshake's write and read; an outcome is left at its first value
\* where the attempt ends before it
ConnEnv ==
    {k \in [found : BOOLEAN, conn : BOOLEAN, w : WriteOutcome, r : RecvOutcome] :
        /\ ~k.found => k.conn
        /\ ~(k.found /\ k.conn) => k.w = "Ok"
        /\ ~(k.found /\ k.conn /\ k.w # "BrokenPipe") => k.r = "Ok"}

\* the outcomes a set meets: the provider's count, the write of the frame
\* and, after a successful write, the read of the response
SetEnv ==
    {k \in [count : 0..MaxCount, w : WriteOutcome, r : RecvOutcome] :
        k.w # "Ok" => k.r = "Ok"}

-----------------------------------------------------------------------------
(* Frames on the wire, lines 97-120 and 234-242: a paired socket is the      *)
(* sequence of the bytes written on one end and not yet read on the other.  *)
(* wire holds one frame on its way: the opcode and the payload text given   *)
(* to send(), the bytes in the socket, and what recv() has obtained so far. *)

\* the opcodes enumerated: TLC's integers end at 2^31 - 1
Opcodes == {0, 1, 2, 255, 256, 65535, 16777216, 2147483647}

\* the bytes of the payload texts enumerated in full: " { and the two bytes
\* of U+00E9
Alphabet == {34, 123, 195, 169}

\* std::str::from_utf8 on sequences of one and two bytes: a byte is ASCII,
\* or the first of two, or the second of two
utf8(b) ==
    \A i \in 1..Len(b) :
       \/ b[i] < 128
       \/ b[i] \in 194..223 /\ i < Len(b) /\ b[i + 1] \in 128..191
       \/ b[i] \in 128..191 /\ i > 1 /\ b[i - 1] \in 194..223

\* serde_json::to_string yields UTF-8 text: every text over the alphabet up
\* to MaxPayload bytes, and texts of the lengths where the bytes of the
\* length field change
Payloads ==
    {p \in UNION {[1..n -> Alphabet] : n \in 0..MaxPayload} : utf8(p)}
       \cup {[i \in 1..n |-> 34] : n \in {255, 256, 65535}}

\* u32::to_be_bytes, the bytes in the other order
to_be_bytes(n) ==
    <<(n \div 16777216) % 256, (n \div 65536) % 256, (n \div 256) % 256, n % 256>>

\* u32::to_le_bytes
to_le_bytes(n) ==
    <<n % 256, (n \div 256) % 256, (n \div 65536) % 256, (n \div 16777216) % 256>>

\* u32::from_le_bytes
from_le_bytes(b) == b[1] + 256 * b[2] + 65536 * b[3] + 16777216 * b[4]

\* send, lines 99-104: opcode, length, payload
frame(opcode, payload) ==
    to_le_bytes(opcode) \o to_le_bytes(Len(payload)) \o payload

\* Read::read on a socket: the bytes there are, at most n of them
read(queue, n) == SubSeq(queue, 1, Min(n, Len(queue)))

\* the socket after k bytes were taken
taken(queue, k) == SubSeq(queue, k + 1, Len(queue))

NoWire == [stage |-> "none"]

First(opcode, payload) ==
    [stage |-> "new", opcode |-> opcode, payload |-> payload, socket |-> <<>>,
     got_opcode |-> None, got_len |-> None, got_payload |-> None, res |-> "Ok"]

Init ==
    /\ wire = NoWire
    /\ client = new
    /\ last_unset = None
    /\ buf = <<>>
    /\ len = 0
    /\ pc = "start"
    /\ last = Quiet
    /\ hist = [cmd |-> "none", age |-> 0]

\* the client and the record after a connect() that ended in k
connected(k) ==
    /\ client' = k.c
    /\ last' = [Of(k) EXCEPT !.connects = 1]

\* main, lines 333-337: the first connect(), its failure only logged
main_connect(e) ==
    /\ pc = "start"
    /\ UNCHANGED wire
    /\ \E k \in {connect(client, e.found, e.conn, e.w, e.r)} : connected(k)
    /\ pc' = "poll"
    /\ UNCHANGED <<last_unset, buf, len, hist>>

\* run, line 252: poll.poll blocks until the channel is readable or for
\* 5 seconds; the Result of the iteration before has been logged by main
poll(d) ==
    /\ pc = "poll"
    /\ UNCHANGED wire
    /\ last_unset' = IF last_unset = None THEN None
                     ELSE Some(Min(last_unset[1] + d, AgeCap))
    /\ hist' = IF hist.cmd = "unset"
               THEN [hist EXCEPT !.age = Min(hist.age + d, AgeCap)]
               ELSE hist
    /\ last' = [Quiet EXCEPT !.broke = last.broke, !.failed = DecodeFailed(last)]
    /\ pc' = "read"
    /\ UNCHANGED <<client, buf, len>>

\* run, line 253: file.read_to_end(buf) appends what the channel holds
read_to_end(rd) ==
    /\ pc = "read"
    /\ UNCHANGED wire
    /\ buf' = Compact(buf \o rd)
    /\ len' = Len(rd)
    /\ last' = [last EXCEPT !.read = Summary(rd)]
    /\ pc' = "run"
    /\ UNCHANGED <<client, last_unset, hist>>

\* run, lines 255-257
run_connect(e) ==
    /\ pc = "run"
    /\ UNCHANGED wire
    /\ ~is_connected(client)
    /\ \E k \in {connect(client, e.found, e.conn, e.w, e.r)} : connected(k)
    /\ pc' = "poll"
    /\ len' = 0
    /\ UNCHANGED <<last_unset, buf, hist>>

\* the outcomes the tick's reconnect() meets: the write of the disconnect
\* notice and those of the new connection
Env == {[w2 |-> w2, found |-> k.found, conn |-> k.conn, w |-> k.w, r |-> k.r] :
           w2 \in WriteOutcome, k \in ConnEnv}

Calm == [w2 |-> "Ok", found |-> TRUE, conn |-> TRUE, w |-> "Ok", r |-> "Ok"]

\* the tick calls reconnect() only when the threshold is exceeded
EnvOf(lu) == IF Due(lu) THEN Env ELSE {Calm}

\* the state after an iteration whose tick ended in t
ticked(t, dispatched, count, pre) ==
    /\ client' = t.c
    /\ last_unset' = t.last_unset
    /\ last' = [Of(t) EXCEPT !.dispatched = dispatched, !.count = count,
                             !.ticked = TRUE, !.reconnect = t.reconnect,
                             !.sent = pre.sent \cup t.sent,
                             !.broke = pre.broke \/ t.broke,
                             !.party = pre.party,
                             !.recv = IF pre.recv # NoRecv THEN pre.recv
                                      ELSE t.recv]
    /\ pc' = "poll"
    /\ len' = 0

\* the end of every iteration that reaches line 286
finish(c, lu, dispatched, count, pre, e) ==
    \E t \in {tick(c, lu, e.w2, e.found, e.conn, e.w, e.r)} :
       ticked(t, dispatched, count, pre)

NoSend == [sent |-> {}, broke |-> FALSE, party |-> None, recv |-> NoRecv]

\* run with nothing read: only the tick
run_idle(e) ==
    /\ pc = "run"
    /\ UNCHANGED wire
    /\ is_connected(client)
    /\ len = 0
    /\ finish(client, last_unset, "none", -1, NoSend, e)
    /\ UNCHANGED <<buf, hist>>

\* run, line 261: the bytes are not UTF-8
run_utf8_error ==
    /\ pc = "run"
    /\ UNCHANGED wire
    /\ is_connected(client)
    /\ len > 0
    /\ ~from_utf8(buf)
    /\ last' = [Quiet EXCEPT !.res = "Err"]
    /\ pc' = "poll"
    /\ len' = 0
    /\ UNCHANGED <<client, last_unset, buf, hist>>

\* Iterator::last: None for an empty sequence
last_of(commands) == IF commands = <<>> THEN None ELSE Some(commands[Len(commands)])

\* commands.last() of line 267
last_command == last_of(split_terminator(buf))

Decoded ==
    /\ pc = "run"
    /\ is_connected(client)
    /\ len > 0
    /\ from_utf8(buf)

\* what the set of lines 274-275 did: the frame of s and the recv() v
with_recv(s, v) ==
    [sent |-> s.sent, broke |-> s.broke, party |-> s.party, recv |-> Met(v)]

\* run, lines 275-276 and on: the response is logged, whatever recv() returned
set_received(s, v, count) ==
    /\ buf' = <<>>
    /\ finish(v.c, None, "set", count, with_recv(s, v), Calm)

\* run, lines 274-276 and on: set_package(count)? ended in s
set_sent(s, count, r1) ==
    /\ hist' = [cmd |-> "set", age |-> 0]
    /\ IF s.res = "Err"
       THEN /\ client' = s.c
            /\ last' = [Quiet EXCEPT !.res = "Err", !.dispatched = "set",
                                     !.count = count, !.sent = s.sent,
                                     !.broke = s.broke, !.party = s.party]
            /\ pc' = "poll"
            /\ len' = 0
            /\ UNCHANGED <<last_unset, buf>>
       ELSE \E v \in {recv(s.c, r1)} : set_received(s, v, count)

\* run, lines 268-276, then the tick
run_set(count, w1, r1) ==
    /\ Decoded
    /\ UNCHANGED wire
    /\ last_command # None
    /\ starts_with_set(last_command[1])
    /\ IF ~from_str(last_command[1])
       THEN /\ last' = [Quiet EXCEPT !.res = "Err"]
            /\ pc' = "poll"
            /\ len' = 0
            /\ UNCHANGED <<client, last_unset, buf, hist>>
       ELSE \E s \in {set_package(client, count, w1)} : set_sent(s, count, r1)

\* an unset that reconnects at once
run_unset_eager(e) ==
    /\ Decoded
    /\ UNCHANGED wire
    /\ last_command # None
    /\ ~starts_with_set(last_command[1])
    /\ starts_with_unset(last_command[1])
    /\ hist' = [cmd |-> "unset", age |-> 0]
    /\ buf' = <<>>
    /\ \E k \in {reconnect(client, e.w2, e.found, e.conn, e.w, e.r)} :
          \E t \in {tick_reconnect(k, Some(0))} : ticked(t, "unset", -1, NoSend)

\* run, lines 277-280, then the tick
run_unset(e) ==
    /\ Decoded
    /\ UNCHANGED wire
    /\ last_command # None
    /\ ~starts_with_set(last_command[1])
    /\ starts_with_unset(last_command[1])
    /\ hist' = [cmd |-> "unset", age |-> 0]
    /\ buf' = <<>>
    /\ finish(client, Some(0), "unset", -1, NoSend, e)

\* run with a last command that is neither: nothing is dispatched
run_other(e) ==
    /\ Decoded
    /\ UNCHANGED wire
    /\ \/ last_command = None
       \/ /\ last_command # None
          /\ ~starts_with_set(last_command[1])
          /\ ~starts_with_unset(last_command[1])
    /\ buf' = <<>>
    /\ finish(client, last_unset, "none", -1, NoSend, e)
    /\ UNCHANGED hist

Next ==
    \/ \E e \in ConnEnv : main_connect(e)
    \/ \E d \in Waits : poll(d)
    \/ \E rd \in Reads : read_to_end(rd)
    \/ \E e \in ConnEnv : run_connect(e)
    \/ \E e \in EnvOf(last_unset) : run_idle(e)
    \/ run_utf8_error
    \/ \E e \in SetEnv : run_set(e.count, e.w, e.r)
    \/ \E e \in EnvOf(Some(0)) : run_unset(e)
    \/ \E e \in EnvOf(last_unset) : run_other(e)

Spec == Init /\ [][Next]_vars

\* send, line 105: write_all puts the whole frame in the socket
frame_send ==
    /\ wire.stage = "new"
    /\ wire' = [wire EXCEPT !.stage = "sent",
                            !.socket = @ \o frame(wire.opcode, wire.payload)]
    /\ UNCHANGED <<client, last_unset, buf, len, pc, last, hist>>

\* get_number, lines 235-241, on the bytes b that read returned
number(w, b, field, stage) ==
    IF Len(b) < 4
    THEN [w EXCEPT !.stage = "done", !.res = "Err", !.socket = taken(@, Len(b))]
    ELSE [w EXCEPT !.stage = stage, ![field] = Some(from_le_bytes(b)),
                   !.socket = taken(@, 4)]

\* recv, line 112
frame_opcode ==
    /\ wire.stage = "sent"
    /\ wire' = number(wire, read(wire.socket, 4), "got_opcode", "opcode")
    /\ UNCHANGED <<client, last_unset, buf, len, pc, last, hist>>

\* recv, line 113
frame_len ==
    /\ wire.stage = "opcode"
    /\ wire' = number(wire, read(wire.socket, 4), "got_len", "len")
    /\ UNCHANGED <<client, last_unset, buf, len, pc, last, hist>>

\* recv, lines 114-119: read_exact of len bytes, then from_utf8
payload_read(w, n) ==
    IF Len(w.socket) < n
    THEN [w EXCEPT !.stage = "done", !.res = "Err", !.socket = <<>>]
    ELSE IF ~utf8(read(w.socket, n))
    THEN [w EXCEPT !.stage = "done", !.res = "Err", !.socket = taken(@, n)]
    ELSE [w EXCEPT !.stage = "done", !.got_payload = Some(read(w.socket, n)),
                   !.socket = taken(@, n)]

frame_payload ==
    /\ wire.stage = "len"
    /\ wire' = payload_read(wire, wire.got_len[1])
    /\ UNCHANGED <<client, last_unset, buf, len, pc, last, hist>>

FrameInit ==
    /\ wire \in {First(o, p) : o \in Opcodes, p \in Payloads}
    /\ client = new
    /\ last_unset = None
    /\ buf = <<>>
    /\ len = 0
    /\ pc = "start"
    /\ last = Quiet
    /\ hist = [cmd |-> "none", age |-> 0]

FrameNext ==
    \/ frame_send
    \/ frame_opcode
    \/ frame_len
    \/ frame_payload

\* one frame sent on one end of a paired socket and received on the other
FrameSpec == FrameInit /\ [][FrameNext]_vars

TypeOK ==
    /\ pc \in {"start", "poll", "read", "run"}
    /\ client.merge_len \in {None} \cup {Some(n) : n \in 0..MaxCount}
    /\ last_unset \in {None} \cup {Some(a) : a \in 0..AgeCap}
    /\ len \in 0..(2 * MaxCmds)

\* main's loop never exits, and time passes: the wait times out again and again
LiveSpec == Spec /\ WF_vars(Next) /\ SF_vars(poll(PollTimeout))

-----------------------------------------------------------------------------
(* Claims.  pc = "poll" holds exactly between two iterations of the loop.  *)

Pending == last_unset # None
Idle == last_unset = None

\* C1: after each iteration the debounce state is PendingUnset if and only if
\* the last command dispatched was unset and fewer than 30 seconds have
\* elapsed since; otherwise it is Idle.
C1_PendingIffRecentUnset ==
    pc = "poll" => (Pending <=> (hist.cmd = "unset" /\ hist.age < UnsetDelay))

\* C2: when the reconnect() of the debounce tick fails, the debounce state
\* is Idle after the iteration.
C2_IdleAfterFailedReconnect ==
    (pc = "poll" /\ last.reconnect = "Err") => Idle

\* C3: merge_len never decreases while it is set, every set stores the
\* maximum of the previous value and the provider's count, it becomes unset
\* only in a step whose tick reconnect() succeeded, and it is unset after
\* every such step.
C3Step ==
    LET m  == client.merge_len
        m2 == client'.merge_len
    IN /\ (m # None /\ m2 # None) => m2[1] >= m[1]
       /\ (m # None /\ m2 = None) => (pc = "run" /\ last'.reconnect = "Ok")
       /\ (pc = "run" /\ last'.reconnect = "Ok") => m2 = None
       /\ (pc = "run" /\ last'.dispatched = "set")
             => m2 = Some(Max(IF m = None THEN 0 ELSE m[1], last'.count))

C3_MergeProgress == [][C3Step]_vars

\* a set whose count is below the running maximum has been dispatched
C3_Witness ==
    /\ pc = "poll"
    /\ last.dispatched = "set"
    /\ client.merge_len # None
    /\ last.count >= 0
    /\ last.count < client.merge_len[1]

\* C4: when one read yields several NUL-separated commands (UTF-8 text)
\* while the client is connected, exactly the last of them is dispatched, and
\* when that is unset no SET_ACTIVITY frame is sent and the debounce state is
\* PendingUnset(now) afterwards.
C4Step ==
    (pc = "run" /\ is_connected(client) /\ last.read.n >= 2 /\ last.read.utf8)
       => /\ last'.dispatched = last.read.final
          /\ last.read.final = "unset"
                => /\ \A f \in last'.sent : f.op # 1
                   /\ last_unset' = Some(0)

C4_OnlyLastCommand == [][C4Step]_vars

\* C5, as stated: after an iteration in which a send hit a broken pipe the
\* client is not connected, and the next iteration calls connect() once and
\* dispatches nothing.
C5_Stated ==
    [][(pc = "run" /\ last.broke)
          => /\ ~is_connected(client)
             /\ last'.connects = 1
             /\ last'.dispatched = "none"]_vars

\* C5, amended: after an iteration in which a send hit a broken pipe the
\* client is connected only if the reconnect() of that iteration went on to
\* open a new connection; when it is not connected, the next iteration calls
\* connect() once, dispatches nothing and does not reach the tick.
C5_ConnectAfterBrokenPipe ==
    [][/\ (pc = "poll" /\ last.broke /\ is_connected(client))
             => last.reconnect # "no"
       /\ (pc = "run" /\ last.broke /\ ~is_connected(client))
             => /\ last'.connects = 1
                /\ last'.dispatched = "none"
                /\ ~last'.ticked]_vars

\* a send has hit a broken pipe, the client is not connected and the next
\* iteration has read bytes
C5_Witness ==
    /\ pc = "run"
    /\ last.broke
    /\ ~is_connected(client)
    /\ len > 0

\* C6: after an iteration that dispatched a set the debounce state is Idle.
C6_SetCancelsUnset ==
    (pc = "poll" /\ last.dispatched = "set") => Idle

\* C7: no opcode 1 frame is written to a socket on which the opcode 0 frame
\* was not written before.
C7_HandshakeBeforeCommand ==
    \A f \in last.sent : f.op = 1 => f.hs

\* C8: whenever the client is connected, the held socket has not been shut
\* down and no I/O call on it has reported a broken pipe or a reset.
C8_ConnectedIsLive ==
    is_connected(client) => (~client.stream[1].shut /\ ~client.stream[1].broken)

\* C9, as stated: whenever the send of the handshake succeeded in connect(),
\* connect() returns Ok and the client is connected afterwards.
C9_Stated ==
    (pc = "poll" /\ last.connects = 1 /\ last.hsSend = "Ok")
       => (last.res = "Ok" /\ is_connected(client))

\* C9, amended: connect() returns the Result of the handshake's send whatever
\* the recv met, and after a successful send the client is connected unless
\* the payload read of the recv hit a broken pipe or a reset, which tears the
\* connection down.
C9_HandshakeLeniency ==
    (pc = "poll" /\ last.connects = 1 /\ last.hsSend # "none")
       => /\ last.res = last.hsSend
          /\ last.hsSend = "Ok"
                => (is_connected(client) <=> last.hsRecv # "ResetPayload")

\* connect() succeeded although the recv of its handshake failed
C9_Witness ==
    /\ pc = "poll"
    /\ last.connects = 1
    /\ last.hsSend = "Ok"
    /\ last.hsRecv = "ShortOpcode"
    /\ last.res = "Ok"
    /\ is_connected(client)

\* the service is reachable: the client stays connected and no reconnect()
\* fails
Reachable ==
    /\ pc # "start" => is_connected(client)
    /\ last.reconnect # "Err"

C11_PartySize ==
    (pc = "poll" /\ last.count # -1)
       => /\ client.merge_len # None
          /\ (last.party # None) <=> (client.merge_len[1] >= 1)
          /\ last.party # None
                => /\ last.party[1] = <<client.merge_len[1] - last.count + 1,
                                        client.merge_len[1]>>
                   /\ 1 <= last.party[1][1]
                   /\ last.party[1][1] <= last.party[1][2]

\* C12: send() on a broken pipe or a connection reset tears the connection
\* down (stream None) and fails; on another I/O error it fails and leaves the
\* stream in place; on success the connection is unchanged.  Checked on the
\* send of set_package, after whose failure run() returns at once, and for
\* the success on the client send() returns.
C12Step ==
    (pc = "run" /\ last'.dispatched = "set")
       => /\ last'.broke
                => (last'.res = "Err" /\ client'.stream = None /\ last'.sent = {})
          /\ (last'.res = "Err" /\ ~last'.broke)
                => (client'.stream = client.stream /\ last'.sent = {})
          /\ \A w \in WriteOutcome :
                send(client, 1, w).res = "Ok" => send(client, 1, w).c = client

C12_SendTeardown == [][C12Step]_vars

\* a set whose write met a broken pipe: the stream is gone
C12_Witness ==
    /\ pc = "poll"
    /\ last.dispatched = "set"
    /\ last.broke
    /\ client.stream = None

\* C13: recv() fails, and returns no (opcode, payload), whenever fewer than
\* 4 bytes are obtained for the opcode field or for the length field.
C13_ShortReadFails ==
    last.recv.io \in {"ShortOpcode", "ShortLen"} => last.recv.res = "Err"

\* the response to a set stopped inside its length field
C13_Witness ==
    /\ pc = "poll"
    /\ last.dispatched = "set"
    /\ last.recv = [io |-> "ShortLen", res |-> "Err"]

\* C19: recv() handles a broken pipe or a connection reset as send() does at
\* every read it performs (opcode, length, payload): the stream is set to
\* None and the call fails.
C19_RecvTeardown ==
    last.recv.io \in {"ResetOpcode", "ResetLen", "ResetPayload"}
       => (last.recv.res = "Err" /\ client.stream = None)

\* C14: a frame written by send(opcode, payload) on one end of a paired
\* socket and read by recv() on the other yields the same opcode and the same
\* text; the frame is the opcode in 4 little-endian bytes, the length in 4
\* little-endian bytes, then that many bytes of payload.
C14_RoundTrip ==
    /\ wire.stage = "sent"
          => /\ Len(wire.socket) = 8 + Len(wire.payload)
             /\ \A i \in 0..3 :
                   /\ wire.socket[i + 1] = (wire.opcode \div 256^i) % 256
                   /\ wire.socket[i + 5] = (Len(wire.payload) \div 256^i) % 256
             /\ taken(wire.socket, 8) = wire.payload
    /\ wire.stage = "done"
          => /\ wire.res = "Ok"
             /\ wire.got_opcode = Some(wire.opcode)
             /\ wire.got_payload = Some(wire.payload)
             /\ wire.socket = <<>>

\* a frame whose opcode and length fill several bytes has come through
C14_Witness ==
    /\ wire.stage = "done"
    /\ wire.opcode = 65535
    /\ Len(wire.payload) = 256
    /\ wire.got_payload = Some(wire.payload)

\* C15: the debounce tick runs at the end of every loop iteration, whether
\* or not bytes were read.
C15_TickEveryIteration == [][pc = "run" => last'.ticked]_vars

\* C16: reconnect() is called only from PendingUnset(t) with more than 30
\* seconds elapsed since t, t being the time of the most recent unset
\* dispatched: each unset replaces t, PendingUnset arises from an unset only,
\* and t is not moved otherwise; a set dispatched prevents the reconnect: an
\* iteration that dispatches a command does not reconnect, and when
\* reconnect() is called no set was dispatched since that unset.
C16Step ==
    /\ last'.reconnect # "no"
          => /\ pc = "run"
             /\ last_unset # None
             /\ last_unset[1] > UnsetDelay
             /\ last'.dispatched = "none"
             /\ hist.cmd = "unset"
    /\ (pc = "run" /\ last'.dispatched = "unset") => last_unset' = Some(0)
    /\ (last_unset' # None /\ last'.dispatched # "unset")
          => (last_unset # None /\ last_unset'[1] >= last_unset[1])
    /\ (hist.cmd = "unset" /\ last_unset # None) => last_unset[1] = hist.age

C16_ReconnectOnlyWhenDue == [][C16Step]_vars

\* C17: dispatching an unset only sets the debounce state to
\* PendingUnset(now): no frame is sent or received, the connection and
\* MergeProgress are unchanged.
C17Step ==
    (pc = "run" /\ last'.dispatched = "unset")
       => /\ last_unset' = Some(0)
          /\ last'.sent = {}
          /\ last'.recv = NoRecv
          /\ last'.reconnect = "no"
          /\ client' = client

C17_UnsetOnlyQueues == [][C17Step]_vars

\* an unset was dispatched while a MergeProgress was stored
C17_Witness ==
    /\ pc = "poll"
    /\ last.dispatched = "unset"
    /\ last_unset = Some(0)
    /\ client.merge_len # None
    /\ is_connected(client)

\* C18: after every iteration in which bytes were read and command
\* processing was entered (the client connected), the accumulator is empty.
C18_AccumulatorCleared ==
    [][(pc = "run" /\ is_connected(client) /\ len > 0) => buf' = <<>>]_vars

\* C20: after an iteration that failed while decoding or parsing the bytes
\* read, an iteration that reads a well-formed set or unset command while the
\* client is connected dispatches that command.
C20Step ==
    (/\ pc = "run"
     /\ last.failed
     /\ is_connected(client)
     /\ last.read.utf8
     /\ last.read.final \in {"set", "unset"})
       => last'.dispatched = last.read.final

C20_FailureNeverBlocks == [][C20Step]_vars

====
